---------------------------- MODULE Spec2Model ----------------------------
(***************************************************************************)
(* A model of scripts/bert_SQuAD/dataset.py: the SQuAD reader              *)
(* (SQuAD._read), the feature transform (SQuADTransform._transform with    *)
(* _improve_answer_span and _check_is_max_context) and the pooled          *)
(* preprocessing (preprocess_dataset).                                     *)
(*                                                                         *)
(* Positions are 0-based as in the source; a Python list is a TLA+         *)
(* sequence read through At/PyIndex/PySlice.  Tokens and words are         *)
(* strings, texts handed to the tokenizer are sequences of words.          *)
(***************************************************************************)
EXTENDS Integers, Sequences, FiniteSets, TLC

VARIABLES
    \* SQuADTransform._transform
    transform,          \* self: max_seq_length, doc_stride, max_query_length, is_training
    example,            \* the SquadExample handed to _transform
    query_tokens, all_doc_tokens, tok_to_orig_index, orig_to_tok_index,
    tok_start_position, tok_end_position,
    doc_spans, start_offset, features,
    pc,                 \* position in _transform
    iters,              \* history: iterations of the window loop so far
    \* SQuAD._read
    reader,             \* self: is_training, version_2
    doc_tokens, char_to_word_offset,
    examples, example_id,
    rpc,                \* position in _read
    questions,          \* history: the number of question records read so far
    source_index,       \* history: per example kept, the records read before it
    last_question,      \* history: the record read last and what became of it
    \* _check_is_max_context
    mc_doc_spans, mc_position,
    mc_flags,           \* the results for cur_span_index = 0, 1, ... so far
    \* _improve_answer_span
    ia_doc_tokens, ia_span, ia_answer_text,
    ia_result,          \* <<>> before the call, <<(new_start, new_end)>> after it
    \* preprocess_dataset
    dataset,
    tasks,              \* the pool's task queue: indices into dataset
    running,            \* per worker, the task it holds (0: none)
    results,            \* pool.map's result list: <<>> while a task is out
    dataset_transform,
    ppc,                \* position in preprocess_dataset
    overtaken           \* history: a task came back before an earlier one

xfVars == <<transform, example, query_tokens, all_doc_tokens, tok_to_orig_index,
            orig_to_tok_index, tok_start_position, tok_end_position, doc_spans,
            start_offset, features, pc, iters>>

readVars == <<reader, doc_tokens, char_to_word_offset, examples, example_id,
              rpc, questions, source_index, last_question>>

mcVars == <<mc_doc_spans, mc_position, mc_flags>>

iaVars == <<ia_doc_tokens, ia_span, ia_answer_text, ia_result>>

poolVars == <<dataset, tasks, running, results, dataset_transform, ppc,
              overtaken>>

vars == <<xfVars, readVars, mcVars, iaVars, poolVars>>

notTransform == <<readVars, mcVars, iaVars, poolVars>>
notRead == <<xfVars, mcVars, iaVars, poolVars>>
notMaxContext == <<xfVars, readVars, iaVars, poolVars>>
notImprove == <<xfVars, readVars, mcVars, poolVars>>
notPool == <<xfVars, readVars, mcVars, iaVars>>

-----------------------------------------------------------------------------
(* Bounds of the model *)

MaxWords == 2
MaxQuestion == 2
MaxQueryLength == 1
MaxSeqLength == 7
MaxStride == 2
MaxIter == 6
MaxParagraphLen == 3
MaxAnswerLen == 2
MaxQuestions == 2
MaxSpans == 3
MaxStart == 2
MaxLength == 2
MaxDocTokens == 4
MaxAnswerWords == 2
MaxRecords == 3
MaxWindows == 2

(* The "- 3" of line 299: [CLS], [SEP] and [SEP]. *)
Special == 3

-----------------------------------------------------------------------------
(* Python lists *)

Min(a, b) == IF a < b THEN a ELSE b
Max(a, b) == IF a > b THEN a ELSE b

\* seq[i] for 0 <= i < len(seq)
At(seq, i) == seq[i + 1]

\* seq[i] is defined (no IndexError): -len <= i < len
PyInRange(seq, i) == -Len(seq) <= i /\ i < Len(seq)

\* seq[i] with Python's negative indices
PyIndex(seq, i) == IF i < 0 THEN seq[Len(seq) + i + 1] ELSE seq[i + 1]

\* The index a slice bound stands for: negative bounds count from the end,
\* and every bound is clamped into 0..len.
PyBound(seq, i) == IF i < 0 THEN Max(Len(seq) + i, 0) ELSE Min(i, Len(seq))

\* seq[lo:hi]
PySlice(seq, lo, hi) == SubSeq(seq, PyBound(seq, lo) + 1, PyBound(seq, hi))

\* ' '.join(tokens), on strings
RECURSIVE Join(_)
Join(tokens) ==
    IF Len(tokens) = 0 THEN ""
    ELSE IF Len(tokens) = 1 THEN tokens[1]
    ELSE tokens[1] \o " " \o Join(Tail(tokens))

-----------------------------------------------------------------------------
(* The tokenizer capability: a deterministic map from a text (a sequence   *)
(* of words) to sub-tokens, and from tokens to ids.  Word "z" stands for a *)
(* word the tokenizer cleans away (it yields no sub-token).                *)

Words == {"a", "ab", "z"}

WordPieces(word) ==
    CASE word = "a"  -> <<"a">>
      [] word = "b"  -> <<"b">>
      [] word = "ab" -> <<"a", "##b">>
      [] word = "z"  -> <<>>
      [] OTHER       -> <<word>>

RECURSIVE Tokenizer(_)
Tokenizer(text) ==
    IF Len(text) = 0 THEN <<>>
    ELSE WordPieces(Head(text)) \o Tokenizer(Tail(text))

TokenId(token) ==
    CASE token = "[CLS]" -> 2
      [] token = "[SEP]" -> 3
      [] token = "a"     -> 4
      [] token = "##b"   -> 5
      [] token = "b"     -> 6
      [] OTHER           -> 1

convert_tokens_to_ids(tokens) == [i \in 1..Len(tokens) |-> TokenId(tokens[i])]


-----------------------------------------------------------------------------
(* _improve_answer_span (lines 421-455) *)

\* The two loops of lines 449-453, from (new_start, new_end) on.
RECURSIVE ImproveLoop(_, _, _, _, _, _)
ImproveLoop(doc, input_start, input_end, tok_answer_text, new_start, new_end) ==
    IF new_start > input_end THEN <<input_start, input_end>>
    ELSE IF new_end < new_start
         THEN ImproveLoop(doc, input_start, input_end, tok_answer_text,
                          new_start + 1, input_end)
    ELSE IF Join(PySlice(doc, new_start, new_end + 1)) = tok_answer_text
         THEN <<new_start, new_end>>
    ELSE ImproveLoop(doc, input_start, input_end, tok_answer_text,
                     new_start, new_end - 1)

\* A plausible slip: new_start runs from input_end down to input_start.
RECURSIVE ImproveLoopDown(_, _, _, _, _, _)
ImproveLoopDown(doc, input_start, input_end, tok_answer_text, new_start, new_end) ==
    IF new_start < input_start THEN <<input_start, input_end>>
    ELSE IF new_end < new_start
         THEN ImproveLoopDown(doc, input_start, input_end, tok_answer_text,
                              new_start - 1, input_end)
    ELSE IF Join(PySlice(doc, new_start, new_end + 1)) = tok_answer_text
         THEN <<new_start, new_end>>
    ELSE ImproveLoopDown(doc, input_start, input_end, tok_answer_text,
                         new_start, new_end - 1)

Mut_improve_answer_span(doc, input_start, input_end, orig_answer_text) ==
    ImproveLoopDown(doc, input_start, input_end,
                    Join(Tokenizer(orig_answer_text)), input_end, input_end)

_improve_answer_span(doc, input_start, input_end, orig_answer_text) ==
    ImproveLoop(doc, input_start, input_end,
                Join(Tokenizer(orig_answer_text)), input_start, input_end)

-----------------------------------------------------------------------------
(* _check_is_max_context (lines 458-493) *)

DocSpan(start, length) == [start |-> start, length |-> length]

SpanEnd(doc_span) == doc_span.start + doc_span.length - 1

\* score = min(left, right) + 0.01 * length, times 100 to stay in the
\* integers.  For lengths below 100, which is every length of this model,
\* two floating-point scores compare as the scaled integers do.
Score(doc_span, position) ==
    100 * Min(position - doc_span.start, SpanEnd(doc_span) - position)
        + doc_span.length

\* Lines 481-484: the spans that do not hold the position are skipped.
Skipped(doc_span, position) ==
    position < doc_span.start \/ position > SpanEnd(doc_span)

\* The loop of lines 479-491 from span_index on; best is <<>> (None) or
\* <<best_score, best_span_index>>.
RECURSIVE BestSpan(_, _, _, _)
BestSpan(spans, position, span_index, best) ==
    IF span_index >= Len(spans) THEN best
    ELSE LET doc_span == At(spans, span_index)
             score == Score(doc_span, position)
         IN  IF Skipped(doc_span, position)
             THEN BestSpan(spans, position, span_index + 1, best)
             ELSE IF best = <<>> \/ score > best[1]
                  THEN BestSpan(spans, position, span_index + 1, <<score, span_index>>)
                  ELSE BestSpan(spans, position, span_index + 1, best)

\* A plausible slip: the scores are compared, not the span indices.
Mut_check_is_max_context(spans, cur_span_index, position) ==
    LET best == BestSpan(spans, position, 0, <<>>)
        cur == At(spans, cur_span_index)
    IN  /\ best # <<>>
        /\ ~Skipped(cur, position)
        /\ Score(cur, position) = best[1]

_check_is_max_context(spans, cur_span_index, position) ==
    LET best == BestSpan(spans, position, 0, <<>>)
    IN  best # <<>> /\ cur_span_index = best[2]

-----------------------------------------------------------------------------
(* SQuADTransform._transform (lines 265-392) *)

\* The inputs: texts of at most hi words over S.
Texts(S, lo, hi) == UNION {[1..n -> S] : n \in lo..hi}

AnswerTexts == {<<"a">>, <<"ab">>, <<"b">>}

SquadExample(doc, question, answer, start, end, impossible) ==
    [qas_id |-> "q", question_text |-> question, doc_tokens |-> doc,
     example_id |-> 0, orig_answer_text |-> answer, start_position |-> start,
     end_position |-> end, is_impossible |-> impossible]

\* What SQuAD._read documents for its examples: an answer span inside the
\* document in training mode, -1 for an impossible question, None outside
\* training mode.
TransformInputs(is_training) ==
    UNION {
      UNION {
        IF is_training
        THEN {SquadExample(doc, question, <<>>, -1, -1, TRUE)}
             \cup {SquadExample(doc, question, answer, start, end, FALSE) :
                     answer \in AnswerTexts,
                     start \in 0..Len(doc) - 1,
                     end \in 0..Len(doc) - 1}
        ELSE {SquadExample(doc, question, "None", "None", "None", FALSE)}
        : question \in Texts({"a"}, 0, MaxQuestion)}
      : doc \in Texts(Words, 1, MaxWords)}

TransformInit ==
    /\ transform \in [max_seq_length : Special..MaxSeqLength,
                      doc_stride : 0..MaxStride,
                      max_query_length : {MaxQueryLength},
                      is_training : BOOLEAN]
    /\ example \in {ex \in TransformInputs(transform.is_training) :
                      transform.is_training /\ ~ex.is_impossible
                          => ex.start_position <= ex.end_position}
    /\ query_tokens = <<>>
    /\ all_doc_tokens = <<>>
    /\ tok_to_orig_index = <<>>
    /\ orig_to_tok_index = <<>>
    /\ tok_start_position = "None"
    /\ tok_end_position = "None"
    /\ doc_spans = <<>>
    /\ start_offset = 0
    /\ features = <<>>
    /\ pc = "tokenize"
    /\ iters = 0

\* Lines 272-280, from word i on.
RECURSIVE TokenizeDoc(_, _, _)
TokenizeDoc(doc, i, acc) ==
    IF i >= Len(doc) THEN acc
    ELSE LET sub_tokens == Tokenizer(<<At(doc, i)>>)
         IN  TokenizeDoc(doc, i + 1,
                 [orig_to_tok_index |->
                      Append(acc.orig_to_tok_index, Len(acc.all_doc_tokens)),
                  tok_to_orig_index |->
                      acc.tok_to_orig_index \o [k \in 1..Len(sub_tokens) |-> i],
                  all_doc_tokens |-> acc.all_doc_tokens \o sub_tokens])

\* Lines 267-270
QueryTokens(question_text, max_query_length) ==
    LET tokens == Tokenizer(question_text)
    IN  IF Len(tokens) > max_query_length
        THEN PySlice(tokens, 0, max_query_length)
        ELSE tokens

\* Lines 267-280
Tokenize ==
    /\ UNCHANGED notTransform
    /\ pc = "tokenize"
    /\ LET t == TokenizeDoc(example.doc_tokens, 0,
                    [orig_to_tok_index |-> <<>>, tok_to_orig_index |-> <<>>,
                     all_doc_tokens |-> <<>>])
       IN  /\ query_tokens' = QueryTokens(example.question_text,
                                          transform.max_query_length)
           /\ all_doc_tokens' = t.all_doc_tokens
           /\ tok_to_orig_index' = t.tok_to_orig_index
           /\ orig_to_tok_index' = t.orig_to_tok_index
    /\ pc' = "align"
    /\ UNCHANGED <<transform, example, tok_start_position, tok_end_position,
                   doc_spans, start_offset, features, iters>>

\* Lines 288-293: the word span projected onto the sub-tokens.
ProjectedSpan(ex, orig_to_tok, all_tokens) ==
    <<PyIndex(orig_to_tok, ex.start_position),
      IF ex.end_position < Len(ex.doc_tokens) - 1
      THEN PyIndex(orig_to_tok, ex.end_position + 1) - 1
      ELSE Len(all_tokens) - 1>>

\* Lines 282-296
Align ==
    /\ UNCHANGED notTransform
    /\ pc = "align"
    /\ IF transform.is_training /\ example.is_impossible
       THEN /\ tok_start_position' = -1
            /\ tok_end_position' = -1
       ELSE IF transform.is_training /\ ~example.is_impossible
       THEN LET projected == ProjectedSpan(example, orig_to_tok_index, all_doc_tokens)
                improved == _improve_answer_span(all_doc_tokens, projected[1],
                                projected[2], example.orig_answer_text)
            IN  /\ tok_start_position' = improved[1]
                /\ tok_end_position' = improved[2]
       ELSE UNCHANGED <<tok_start_position, tok_end_position>>
    /\ pc' = "split"
    /\ UNCHANGED <<transform, example, query_tokens, all_doc_tokens,
                   tok_to_orig_index, orig_to_tok_index, doc_spans,
                   start_offset, features, iters>>

\* Line 299
max_tokens_for_doc == transform.max_seq_length - Len(query_tokens) - Special

\* Lines 309-311
WindowLength(n, offset, max_tokens) ==
    IF n - offset > max_tokens THEN max_tokens ELSE n - offset

\* A plausible slip: the stride is taken even when the window is shorter.
Mut_Advance(length, doc_stride) == doc_stride

\* Line 315
Advance(length, doc_stride) == Min(length, doc_stride)

\* Lines 308-315: one iteration of the window loop.  The loop is cut after
\* MaxIter iterations, which is more than any document of the model needs.
SplitStep ==
    /\ UNCHANGED notTransform
    /\ pc = "split"
    /\ iters < MaxIter
    /\ start_offset < Len(all_doc_tokens)
    /\ LET length == WindowLength(Len(all_doc_tokens), start_offset, max_tokens_for_doc)
       IN  /\ doc_spans' = Append(doc_spans, DocSpan(start_offset, length))
           /\ iters' = iters + 1
           /\ IF start_offset + length = Len(all_doc_tokens)
              THEN /\ pc' = "features"
                   /\ UNCHANGED start_offset
              ELSE /\ start_offset' = start_offset + Advance(length, transform.doc_stride)
                   /\ UNCHANGED pc
    /\ UNCHANGED <<transform, example, query_tokens, all_doc_tokens,
                   tok_to_orig_index, orig_to_tok_index, tok_start_position,
                   tok_end_position, features>>

\* Line 308: the loop condition fails.
SplitExit ==
    /\ UNCHANGED notTransform
    /\ pc = "split"
    /\ ~(start_offset < Len(all_doc_tokens))
    /\ pc' = "features"
    /\ UNCHANGED <<transform, example, query_tokens, all_doc_tokens,
                   tok_to_orig_index, orig_to_tok_index, tok_start_position,
                   tok_end_position, doc_spans, start_offset, features, iters>>

\* n zeros
Zeros(n) == [i \in 1..n |-> 0]

\* Lines 350-352: both lists grow by one 0 until input_ids is long enough.
PadCount(input_ids, max_seq_length) == Max(max_seq_length - Len(input_ids), 0)

\* A plausible slip: the first [SEP] is counted with the document.
Mut_SegmentIds(query_len, length) ==
    Zeros(1 + query_len) \o [i \in 1..length + 2 |-> 1]

\* Lines 321-341: 0 for [CLS], the query and its [SEP], 1 for the window and
\* its [SEP].
SegmentIds(query_len, length) ==
    Zeros(1 + query_len + 1) \o [i \in 1..length + 1 |-> 1]

\* Lines 357-378: the answer positions inside the window's tokens.
Labels(doc_span, is_training, is_impossible, tok_start, tok_end, query_len) ==
    IF is_training /\ ~is_impossible
    THEN LET doc_start == doc_span.start
             doc_end == doc_span.start + doc_span.length - 1
             out_of_span == ~(tok_start >= doc_start /\ tok_end <= doc_end)
             doc_offset == query_len + 2
         IN  IF out_of_span THEN <<0, 0>>
             ELSE <<tok_start - doc_start + doc_offset,
                    tok_end - doc_start + doc_offset>>
    ELSE <<0, 0>>

\* Lines 318-391: the feature of window doc_span_index.
SquadFeature(doc_span_index) ==
    LET doc_span == At(doc_spans, doc_span_index)
        head == <<"[CLS]">> \o query_tokens \o <<"[SEP]">>
        window == [i \in 1..doc_span.length |->
                       At(all_doc_tokens, doc_span.start + i - 1)]
        tokens == head \o window \o <<"[SEP]">>
        positions == {Len(head) + i : i \in 0..doc_span.length - 1}
        input_ids == convert_tokens_to_ids(tokens)
        pad == PadCount(input_ids, transform.max_seq_length)
        labels == Labels(doc_span, transform.is_training, example.is_impossible,
                         tok_start_position, tok_end_position, Len(query_tokens))
    IN  [example_id |-> example.example_id,
         qas_id |-> example.qas_id,
         doc_tokens |-> example.doc_tokens,
         doc_span_index |-> doc_span_index,
         tokens |-> tokens,
         token_to_orig_map |->
             [p \in positions |->
                  At(tok_to_orig_index, doc_span.start + (p - Len(head)))],
         token_is_max_context |->
             [p \in positions |->
                  _check_is_max_context(doc_spans, doc_span_index,
                                        doc_span.start + (p - Len(head)))],
         input_ids |-> input_ids \o Zeros(pad),
         valid_length |-> Len(input_ids),
         segment_ids |-> SegmentIds(Len(query_tokens), doc_span.length)
                             \o Zeros(pad),
         start_position |-> labels[1],
         end_position |-> labels[2],
         is_impossible |-> example.is_impossible]

\* Lines 317-391: one iteration of the loop over doc_spans; the asserts of
\* lines 354-355 end the call when they fail.
BuildFeature ==
    /\ UNCHANGED notTransform
    /\ pc = "features"
    /\ Len(features) < Len(doc_spans)
    /\ LET feature == SquadFeature(Len(features))
       IN  IF /\ Len(feature.input_ids) = transform.max_seq_length
              /\ Len(feature.segment_ids) = transform.max_seq_length
           THEN /\ features' = Append(features, feature)
                /\ UNCHANGED pc
           ELSE /\ pc' = "AssertionError"
                /\ UNCHANGED features
    /\ UNCHANGED <<transform, example, query_tokens, all_doc_tokens,
                   tok_to_orig_index, orig_to_tok_index, tok_start_position,
                   tok_end_position, doc_spans, start_offset, iters>>

\* Line 392
Return ==
    /\ UNCHANGED notTransform
    /\ pc = "features"
    /\ Len(features) = Len(doc_spans)
    /\ pc' = "done"
    /\ UNCHANGED <<transform, example, query_tokens, all_doc_tokens,
                   tok_to_orig_index, orig_to_tok_index, tok_start_position,
                   tok_end_position, doc_spans, start_offset, features, iters>>

TransformNext ==
    \/ Tokenize
    \/ Align
    \/ SplitStep
    \/ SplitExit
    \/ BuildFeature
    \/ Return

-----------------------------------------------------------------------------
(* SQuAD._read (lines 138-223) on an input of one entry with one          *)
(* paragraph and its question records.  A text is a sequence of            *)
(* characters: " " stands for the whitespace characters, which             *)
(* is_whitespace, str.strip and str.split all know, "a" for the rest.      *)

Chars == {" ", "a"}

\* Lines 143-147
is_whitespace(c) == c = " "

\* str.isspace, which str.strip() and str.split() go by
IsSpace(c) == c = " "

\* Lines 154-166, from character i on.
RECURSIVE Segment(_, _, _)
Segment(paragraph_text, i, acc) ==
    IF i >= Len(paragraph_text) THEN acc
    ELSE LET c == At(paragraph_text, i)
             tokens ==
                 IF is_whitespace(c) THEN acc.doc_tokens
                 ELSE IF acc.prev_is_whitespace
                      THEN Append(acc.doc_tokens, <<c>>)
                      ELSE [acc.doc_tokens EXCEPT ![Len(acc.doc_tokens)] = @ \o <<c>>]
         IN  Segment(paragraph_text, i + 1,
                 [doc_tokens |-> tokens,
                  prev_is_whitespace |-> is_whitespace(c),
                  char_to_word_offset |->
                      Append(acc.char_to_word_offset, Len(tokens) - 1)])

\* ' '.join(words), on sequences of characters
RECURSIVE JoinChars(_)
JoinChars(words) ==
    IF Len(words) = 0 THEN <<>>
    ELSE IF Len(words) = 1 THEN words[1]
    ELSE words[1] \o <<" ">> \o JoinChars(Tail(words))

\* text.split(): the maximal runs of characters that are not whitespace;
\* word is the run being read.
RECURSIVE Split(_, _, _)
Split(text, i, word) ==
    IF i >= Len(text) THEN (IF word = <<>> THEN <<>> ELSE <<word>>)
    ELSE IF IsSpace(At(text, i))
         THEN (IF word = <<>> THEN <<>> ELSE <<word>>) \o Split(text, i + 1, <<>>)
         ELSE Split(text, i + 1, Append(word, At(text, i)))

\* Lines 225-231
whitespace_tokenize(text) == Split(text, 0, <<>>)

\* text.find(sub) != -1
Found(text, sub) ==
    \E k \in 0..Len(text) - Len(sub) : SubSeq(text, k + 1, k + Len(sub)) = sub

\* A plausible slip: the count is checked for answerable and impossible
\* questions alike.
Mut_MalformedAnswerCount(answers, is_impossible) == Len(answers) # 1

\* Line 179
MalformedAnswerCount(answers, is_impossible) ==
    Len(answers) # 1 /\ ~is_impossible

\* A plausible slip: the counter moves on before the recoverability check.
Mut_NextExampleId(id, kind) == id + 1

\* Lines 204 and 221: the counter moves on when an example is appended; the
\* continue of line 204 and the raise of line 180 leave it.
NextExampleId(id, kind) == IF kind = "example" THEN id + 1 ELSE id

\* Lines 169-218 for one question record: what the iteration ends in, and
\* the example it builds.
ReadQuestionRecord(qa, self, words, offsets, id) ==
    LET is_impossible == IF self.is_training /\ self.version_2
                         THEN qa.is_impossible ELSE FALSE
        built(text, start, end) ==
            [kind |-> "example",
             example |-> [qas_id |-> qa.id, question_text |-> qa.question,
                          doc_tokens |-> words, example_id |-> id,
                          orig_answer_text |-> text, start_position |-> start,
                          end_position |-> end, is_impossible |-> is_impossible]]
    IN  IF ~self.is_training THEN built("None", "None", "None")
        ELSE IF MalformedAnswerCount(qa.answers, is_impossible)
             THEN [kind |-> "ValueError"]
        ELSE IF is_impossible THEN built(<<>>, -1, -1)
        ELSE LET answer == At(qa.answers, 0)
                 orig_answer_text == answer.text
                 answer_offset == answer.answer_start
                 answer_length == Len(orig_answer_text)
             IN  IF ~(/\ PyInRange(offsets, answer_offset)
                      /\ PyInRange(offsets, answer_offset + answer_length - 1))
                 THEN [kind |-> "IndexError"]
                 ELSE LET start_position == PyIndex(offsets, answer_offset)
                          end_position ==
                              PyIndex(offsets, answer_offset + answer_length - 1)
                          actual_text ==
                              JoinChars(PySlice(words, start_position, end_position + 1))
                          cleaned_answer_text ==
                              JoinChars(whitespace_tokenize(orig_answer_text))
                      IN  IF ~Found(actual_text, cleaned_answer_text)
                          THEN [kind |-> "dropped"]
                          ELSE built(orig_answer_text, start_position, end_position)

Answers == [text : Texts(Chars, 0, MaxAnswerLen), answer_start : 0..MaxParagraphLen - 1]

\* The question records of the input: no answer, one answer, or two (of
\* which _read looks at the number only).
QuestionRecords ==
    [id : {"q"}, question : {<<"a">>}, is_impossible : BOOLEAN,
     answers : {<<>>} \cup {<<a>> : a \in Answers}
                  \cup {<<a, a>> : a \in {[text |-> <<"a">>, answer_start |-> 0]}}]

ReadInit ==
    /\ reader \in [is_training : BOOLEAN, version_2 : BOOLEAN]
    /\ doc_tokens = <<>>
    /\ char_to_word_offset = <<>>
    /\ examples = <<>>
    /\ example_id = 0
    /\ rpc = "paragraph"
    /\ questions = 0
    /\ source_index = <<>>
    /\ last_question = <<>>

\* Lines 151-166: the paragraph of the input is segmented.
NextParagraph ==
    /\ UNCHANGED notRead
    /\ rpc = "paragraph"
    /\ \E paragraph_text \in Texts(Chars, 1, MaxParagraphLen) :
          LET seg == Segment(paragraph_text, 0,
                         [doc_tokens |-> <<>>, prev_is_whitespace |-> TRUE,
                          char_to_word_offset |-> <<>>])
          IN  /\ doc_tokens' = seg.doc_tokens
              /\ char_to_word_offset' = seg.char_to_word_offset
    /\ rpc' = "qas"
    /\ UNCHANGED <<reader, examples, example_id, questions, source_index,
                   last_question>>

\* Lines 168-221: one question record of the paragraph.
ReadQuestion ==
    /\ UNCHANGED notRead
    /\ rpc = "qas"
    /\ questions < MaxQuestions
    /\ \E qa \in QuestionRecords :
          LET r == ReadQuestionRecord(qa, reader, doc_tokens,
                                      char_to_word_offset, example_id)
          IN  /\ questions' = questions + 1
              /\ last_question' = <<[answers |-> Len(qa.answers),
                                     is_impossible |-> qa.is_impossible,
                                     kind |-> r.kind]>>
              /\ example_id' = NextExampleId(example_id, r.kind)
              /\ IF r.kind = "example"
                 THEN /\ examples' = Append(examples, r.example)
                      /\ source_index' = Append(source_index, questions)
                      /\ UNCHANGED rpc
                 ELSE IF r.kind = "dropped"
                 THEN UNCHANGED <<examples, source_index, rpc>>
                 ELSE /\ rpc' = r.kind
                      /\ UNCHANGED <<examples, source_index>>
    /\ UNCHANGED <<reader, doc_tokens, char_to_word_offset>>

\* Line 223
ReadReturn ==
    /\ UNCHANGED notRead
    /\ rpc = "qas"
    /\ rpc' = "done"
    /\ UNCHANGED <<reader, doc_tokens, char_to_word_offset, examples,
                   example_id, questions, source_index, last_question>>

ReadNext ==
    \/ NextParagraph
    \/ ReadQuestion
    \/ ReadReturn

-----------------------------------------------------------------------------
(* _check_is_max_context called for every window of a list of windows *)

DocSpans == {DocSpan(start, length) : start \in 0..MaxStart, length \in 0..MaxLength}

MaxContextInit ==
    /\ mc_doc_spans \in Texts(DocSpans, 1, MaxSpans)
    /\ mc_position \in 0..MaxStart + MaxLength
    /\ mc_flags = <<>>

\* Lines 458-493, for cur_span_index = len(mc_flags)
MaxContextCall ==
    /\ UNCHANGED notMaxContext
    /\ Len(mc_flags) < Len(mc_doc_spans)
    /\ mc_flags' = Append(mc_flags,
                       _check_is_max_context(mc_doc_spans, Len(mc_flags), mc_position))
    /\ UNCHANGED <<mc_doc_spans, mc_position>>

-----------------------------------------------------------------------------
(* _improve_answer_span called on a document of sub-tokens *)

\* The example of the comment of lines 429-435
SmithTokens == <<"(", "1895", "-", "1943", ")", ".">>

ImproveInit ==
    /\ \/ /\ ia_doc_tokens \in Texts({"a", "b"}, 1, MaxDocTokens)
          /\ ia_answer_text \in Texts({"a", "b"}, 0, MaxAnswerWords)
       \/ /\ ia_doc_tokens = SmithTokens
          /\ ia_answer_text \in {<<"1895">>, <<"1943">>, <<"1895", "-", "1943">>}
    /\ ia_span \in {sp \in (0..Len(ia_doc_tokens) - 1) \X (-1..Len(ia_doc_tokens) - 1) :
                      sp[1] <= sp[2] + 1}
    /\ ia_result = <<>>

\* Lines 421-455
ImproveCall ==
    /\ UNCHANGED notImprove
    /\ ia_result = <<>>
    /\ ia_result' = <<_improve_answer_span(ia_doc_tokens, ia_span[1], ia_span[2],
                                           ia_answer_text)>>
    /\ UNCHANGED <<ia_doc_tokens, ia_span, ia_answer_text>>

-----------------------------------------------------------------------------
(* preprocess_dataset (lines 54-73).  A record stands for an example and   *)
(* the number of windows the transform splits it into; a feature row for   *)
(* the list SQuADTransform.__call__ builds per window.  mp.Pool(8).map     *)
(* cuts the dataset into chunks of ceil(len / 32) records, one record for  *)
(* the datasets of this model, hands the chunks out in order to whichever  *)
(* worker is free, stores each result at its chunk's place and returns     *)
(* when every chunk is back.                                               *)

\* Line 65
PoolSize == 8

Workers == 1..PoolSize

\* The datasets: record i has example_id i - 1.
Datasets ==
    UNION {{[i \in 1..n |-> [example_id |-> i - 1, windows |-> w[i]]] :
              w \in [1..n -> 0..MaxWindows]} : n \in 1..MaxRecords}

\* The transform: a deterministic function of the record.
TransformCall(record) ==
    [k \in 1..record.windows |->
         [example_id |-> record.example_id, doc_span_index |-> k - 1]]

\* Lines 54-57
preprocess(record) == TransformCall(record)

\* A plausible slip (imap_unordered for map): results in completion order.
Mut_StoreResult(res, i, value) ==
    LET free == CHOOSE j \in 1..Len(res) :
                    res[j] = <<>> /\ \A k \in 1..j - 1 : res[k] # <<>>
    IN  [res EXCEPT ![free] = <<value>>]

\* pool.map: the result of task i goes to place i.
StoreResult(res, i, value) == [res EXCEPT ![i] = <<value>>]

PoolInit ==
    /\ dataset \in Datasets
    /\ tasks = <<>>
    /\ running = [w \in Workers |-> 0]
    /\ results = <<>>
    /\ dataset_transform = <<>>
    /\ ppc = "start"
    /\ overtaken = FALSE

\* Lines 61-67: pool.map queues one task per record.
Submit ==
    /\ UNCHANGED notPool
    /\ ppc = "start"
    /\ tasks' = [i \in 1..Len(dataset) |-> i]
    /\ results' = [i \in 1..Len(dataset) |-> <<>>]
    /\ ppc' = "map"
    /\ UNCHANGED <<dataset, running, dataset_transform, overtaken>>

\* A free worker takes the next task of the queue.
WorkerTake(w) ==
    /\ UNCHANGED notPool
    /\ ppc = "map"
    /\ running[w] = 0
    /\ tasks # <<>>
    /\ running' = [running EXCEPT ![w] = Head(tasks)]
    /\ tasks' = Tail(tasks)
    /\ UNCHANGED <<dataset, results, dataset_transform, ppc, overtaken>>

\* Lines 54-57: a worker finishes its task and hands the result back.
WorkerFinish(w) ==
    /\ UNCHANGED notPool
    /\ ppc = "map"
    /\ running[w] # 0
    /\ results' = StoreResult(results, running[w], preprocess(dataset[running[w]]))
    /\ running' = [running EXCEPT ![w] = 0]
    /\ overtaken' = (overtaken \/ \E v \in Workers : running[v] # 0 /\ running[v] < running[w])
    /\ UNCHANGED <<dataset, tasks, dataset_transform, ppc>>

\* Line 67: pool.map returns when every task is back.
MapReturn ==
    /\ UNCHANGED notPool
    /\ ppc = "map"
    /\ \A i \in 1..Len(results) : results[i] # <<>>
    /\ ppc' = "extend"
    /\ UNCHANGED <<dataset, tasks, running, results, dataset_transform, overtaken>>

\* Lines 67-68: one iteration of the loop over pool.map's list.
Extend ==
    /\ UNCHANGED notPool
    /\ ppc = "extend"
    /\ results # <<>>
    /\ dataset_transform' = dataset_transform \o Head(results)[1]
    /\ results' = Tail(results)
    /\ UNCHANGED <<dataset, tasks, running, ppc, overtaken>>

\* Lines 70-73
PoolReturn ==
    /\ UNCHANGED notPool
    /\ ppc = "extend"
    /\ results = <<>>
    /\ ppc' = "done"
    /\ UNCHANGED <<dataset, tasks, running, results, dataset_transform, overtaken>>

-----------------------------------------------------------------------------
(* The specifications: one per entry point *)

TransformIdle ==
    /\ transform = [max_seq_length |-> Special, doc_stride |-> 0,
                    max_query_length |-> 0, is_training |-> FALSE]
    /\ example = SquadExample(<<>>, <<>>, "None", "None", "None", FALSE)
    /\ query_tokens = <<>>
    /\ all_doc_tokens = <<>>
    /\ tok_to_orig_index = <<>>
    /\ orig_to_tok_index = <<>>
    /\ tok_start_position = "None"
    /\ tok_end_position = "None"
    /\ doc_spans = <<>>
    /\ start_offset = 0
    /\ features = <<>>
    /\ pc = "idle"
    /\ iters = 0

ReadIdle ==
    /\ reader = [is_training |-> FALSE, version_2 |-> FALSE]
    /\ doc_tokens = <<>>
    /\ char_to_word_offset = <<>>
    /\ examples = <<>>
    /\ example_id = 0
    /\ rpc = "idle"
    /\ questions = 0
    /\ source_index = <<>>
    /\ last_question = <<>>

MaxContextIdle ==
    /\ mc_doc_spans = <<>>
    /\ mc_position = 0
    /\ mc_flags = <<>>

ImproveIdle ==
    /\ ia_doc_tokens = <<>>
    /\ ia_span = <<0, 0>>
    /\ ia_answer_text = <<>>
    /\ ia_result = <<>>

PoolIdle ==
    /\ dataset = <<>>
    /\ tasks = <<>>
    /\ running = <<>>
    /\ results = <<>>
    /\ dataset_transform = <<>>
    /\ ppc = "idle"
    /\ overtaken = FALSE

\* SQuADTransform._transform on one example
Init == TransformInit /\ ReadIdle /\ MaxContextIdle /\ ImproveIdle /\ PoolIdle

Next == TransformNext

Spec == Init /\ [][Next]_vars

\* SQuAD._read on one input file
InitRead == ReadInit /\ TransformIdle /\ MaxContextIdle /\ ImproveIdle /\ PoolIdle

NextRead == ReadNext

SpecRead == InitRead /\ [][NextRead]_vars

\* _check_is_max_context on one list of windows and one position
InitMaxContext == MaxContextInit /\ TransformIdle /\ ReadIdle /\ ImproveIdle /\ PoolIdle

NextMaxContext == MaxContextCall

SpecMaxContext == InitMaxContext /\ [][NextMaxContext]_vars

\* _improve_answer_span on one document and one answer
InitImprove == ImproveInit /\ TransformIdle /\ ReadIdle /\ MaxContextIdle /\ PoolIdle

NextImprove == ImproveCall

SpecImprove == InitImprove /\ [][NextImprove]_vars

\* preprocess_dataset on one dataset
InitPool == PoolInit /\ TransformIdle /\ ReadIdle /\ MaxContextIdle /\ ImproveIdle

NextPool ==
    \/ Submit
    \/ \E w \in Workers : WorkerTake(w)
    \/ \E w \in Workers : WorkerFinish(w)
    \/ MapReturn
    \/ Extend
    \/ PoolReturn

SpecPool == InitPool /\ [][NextPool]_vars

-----------------------------------------------------------------------------
(* The window splitter *)

InSpan(doc_span, position) ==
    doc_span.start <= position /\ position <= SpanEnd(doc_span)

Windowing == pc \in {"split", "features", "AssertionError", "done"}

SplitDone == pc \in {"features", "AssertionError", "done"}

\* C1: with at least one sub-token, max_tokens_for_doc >= 1 and
\* doc_stride >= 1, the first window starts at 0, every next window starts
\* no later than one past the end of the one before it, the loop runs at
\* most N times, and when it has stopped the windows cover [0, N) and the
\* last one ends at N - 1.
C1_WindowCoverage ==
    (/\ Windowing
     /\ Len(all_doc_tokens) >= 1
     /\ max_tokens_for_doc >= 1
     /\ transform.doc_stride >= 1)
    => /\ iters <= Len(all_doc_tokens)
       /\ Len(doc_spans) = iters
       /\ \A i \in 1..Len(doc_spans) :
             IF i = 1 THEN doc_spans[i].start = 0
             ELSE doc_spans[i].start <= SpanEnd(doc_spans[i - 1]) + 1
       /\ SplitDone =>
             /\ Len(doc_spans) >= 1
             /\ SpanEnd(doc_spans[Len(doc_spans)]) = Len(all_doc_tokens) - 1
             /\ \A p \in 0..Len(all_doc_tokens) - 1 :
                   \E i \in 1..Len(doc_spans) : InSpan(doc_spans[i], p)

\* A document split into three or more overlapping windows.
C1_Witness ==
    /\ pc = "done"
    /\ max_tokens_for_doc >= 1
    /\ transform.doc_stride >= 1
    /\ Len(doc_spans) >= 3
    /\ doc_spans[2].start <= SpanEnd(doc_spans[1])

\* C2: when max_tokens_for_doc < 1 and the document is not empty, the
\* configuration error is reported before windowing starts: no iteration
\* of the window loop runs, no window of zero or negative length is
\* emitted, and the loop does not run on past the document's length.
C2_InvalidConfigurationReported ==
    /\ (Windowing /\ Len(all_doc_tokens) >= 1 /\ max_tokens_for_doc < 1)
           => iters = 0 /\ doc_spans = <<>>
    /\ \A i \in 1..Len(doc_spans) : doc_spans[i].length >= 1
    /\ (Windowing /\ transform.doc_stride >= 1) => iters <= Len(all_doc_tokens)

-----------------------------------------------------------------------------
(* The features *)

\* C3: in every feature, when start_position or end_position is not 0,
\* both lie in [0, valid_length) and start_position <= end_position.
C3_LabelContainment ==
    \A i \in 1..Len(features) :
        LET f == features[i]
        IN  (f.start_position # 0 \/ f.end_position # 0)
            => /\ 0 <= f.start_position /\ f.start_position < f.valid_length
               /\ 0 <= f.end_position /\ f.end_position < f.valid_length
               /\ f.start_position <= f.end_position

\* C6: every feature has input_ids and segment_ids of max_seq_length
\* entries, valid_length = len(query_tokens) + window length + 3 <=
\* max_seq_length, segment 0 up to the first [SEP], segment 1 from there to
\* valid_length - 1, and 0 in both lists from valid_length on.
C6_FeatureShape ==
    \A i \in 1..Len(features) :
        LET f == features[i]
            q == Len(query_tokens)
        IN  /\ Len(f.input_ids) = transform.max_seq_length
            /\ Len(f.segment_ids) = transform.max_seq_length
            /\ f.valid_length = q + doc_spans[i].length + 3
            /\ f.valid_length <= transform.max_seq_length
            /\ \A p \in 0..transform.max_seq_length - 1 :
                  /\ p <= q + 1 => At(f.segment_ids, p) = 0
                  /\ (q + 2 <= p /\ p <= f.valid_length - 1)
                         => At(f.segment_ids, p) = 1
                  /\ p >= f.valid_length
                         => At(f.segment_ids, p) = 0 /\ At(f.input_ids, p) = 0

\* A call that returns two padded features with a query token in them.
C6_Witness ==
    /\ pc = "done"
    /\ Len(features) >= 2
    /\ Len(query_tokens) >= 1
    /\ \E i \in 1..Len(features) :
          features[i].valid_length < transform.max_seq_length

\* tokens[position] of a feature is the document sub-token at index tok.
PointsAt(f, position, tok) ==
    /\ 0 <= tok /\ tok < Len(all_doc_tokens)
    /\ 0 <= position /\ position < Len(f.tokens)
    /\ At(f.tokens, position) = At(all_doc_tokens, tok)

\* C11: one feature is emitted per window.  For a training example that is
\* not impossible, a window with start <= tok_start_position and
\* tok_end_position <= start + length - 1 has start_position =
\* tok_start_position - start + len(query_tokens) + 2 and end_position =
\* tok_end_position - start + len(query_tokens) + 2, and tokens[start_position]
\* and tokens[end_position] are the document sub-tokens at tok_start_position
\* and tok_end_position; every other window has both positions 0.  For an
\* impossible example, and outside training mode, both positions are 0.
C11_LabelAssignment ==
    /\ pc = "done" => Len(features) = Len(doc_spans)
    /\ \A i \in 1..Len(features) :
          LET f == features[i]
              window == doc_spans[i]
              doc_offset == Len(query_tokens) + 2
          IN  IF transform.is_training /\ ~example.is_impossible
              THEN IF /\ window.start <= tok_start_position
                      /\ tok_end_position <= SpanEnd(window)
                   THEN /\ f.start_position =
                              tok_start_position - window.start + doc_offset
                        /\ f.end_position =
                              tok_end_position - window.start + doc_offset
                        /\ PointsAt(f, f.start_position, tok_start_position)
                        /\ PointsAt(f, f.end_position, tok_end_position)
                   ELSE f.start_position = 0 /\ f.end_position = 0
              ELSE f.start_position = 0 /\ f.end_position = 0

-----------------------------------------------------------------------------
(* The reader *)

\* C4: in training mode every example kept that is not impossible has
\* 0 <= start_position <= end_position < len(doc_tokens).
C4_ExampleInvariant ==
    reader.is_training =>
        \A i \in 1..Len(examples) :
            LET e == examples[i]
            IN  ~e.is_impossible
                => /\ 0 <= e.start_position
                   /\ e.start_position <= e.end_position
                   /\ e.end_position < Len(e.doc_tokens)

\* C7 as claimed: the example_id of a kept example is the number of
\* question records read before it, dropped ones included.
C7_CountsEveryRecord ==
    \A i \in 1..Len(examples) : examples[i].example_id = source_index[i]

\* C7 as the code has it: the counter moves on only when an example is
\* kept, so the example_id of a kept example is the number of examples
\* kept before it (its index in the list returned), which is at most the
\* number of question records read before it.
C7_CountsKeptExamples ==
    /\ rpc # "idle" => example_id = Len(examples)
    /\ \A i \in 1..Len(examples) :
          /\ examples[i].example_id = i - 1
          /\ examples[i].example_id <= source_index[i]

\* An example kept after a question that was dropped.
C7_Witness ==
    /\ rpc = "done"
    /\ \E i \in 1..Len(examples) : examples[i].example_id < source_index[i]

\* C9: in training mode a question that is not impossible (outside
\* version_2 mode: any question) and has not exactly one answer raises the
\* ValueError and no example is built for it; a question marked impossible
\* in version_2 mode is accepted with any number of answers and gets
\* start_position = end_position = -1 and orig_answer_text = ''.
C9_AnswerCount ==
    (reader.is_training /\ last_question # <<>>) =>
        LET q == last_question[1]
            impossible == reader.version_2 /\ q.is_impossible
            built == /\ Len(examples) >= 1
                     /\ source_index[Len(examples)] = questions - 1
        IN  /\ (~impossible /\ q.answers # 1)
                   => q.kind = "ValueError" /\ rpc = "ValueError" /\ ~built
            /\ impossible
                   => /\ q.kind = "example"
                      /\ built
                      /\ examples[Len(examples)].is_impossible
                      /\ examples[Len(examples)].start_position = -1
                      /\ examples[Len(examples)].end_position = -1
                      /\ examples[Len(examples)].orig_answer_text = <<>>

\* An impossible question with two answers is accepted, then a question
\* with a wrong number of answers raises.
C9_Witness ==
    /\ reader.is_training /\ reader.version_2
    /\ rpc = "ValueError"
    /\ Len(examples) = 1
    /\ examples[1].is_impossible
    /\ examples[1].start_position = -1
    /\ last_question[1].answers = 2

-----------------------------------------------------------------------------
(* The max-context owner *)

Holders == {i \in 1..Len(mc_doc_spans) : InSpan(mc_doc_spans[i], mc_position)}

Owners == {i \in 1..Len(mc_flags) : mc_flags[i]}

\* C5: for a position that lies in at least one window,
\* _check_is_max_context is true for exactly one window index, and that
\* window holds the position.
C5_MaxContextPartition ==
    (Len(mc_flags) = Len(mc_doc_spans) /\ Holders # {})
        => Cardinality(Owners) = 1 /\ Owners \subseteq Holders

\* A position in several windows whose owner is not the first of them.
C5_Witness ==
    /\ Len(mc_flags) = Len(mc_doc_spans)
    /\ Cardinality(Holders) >= 2
    /\ InSpan(mc_doc_spans[1], mc_position)
    /\ ~mc_flags[1]

-----------------------------------------------------------------------------
(* The pool *)

\* The transform applied to the records one after the other.
RECURSIVE Sequential(_)
Sequential(records) ==
    IF records = <<>> THEN <<>>
    ELSE TransformCall(Head(records)) \o Sequential(Tail(records))

\* C8: whatever worker ran which record and in whatever order they came
\* back, the dataset returned is the records' feature lists in source
\* order, as the sequential transform gives them.
C8_SourceOrder ==
    ppc = "done" => dataset_transform = Sequential(dataset)

\* A run in which a later record came back first and every record has a
\* feature.
C8_Witness ==
    /\ ppc = "done"
    /\ overtaken
    /\ Len(dataset) >= 2
    /\ \A i \in 1..Len(dataset) : dataset[i].windows >= 1

-----------------------------------------------------------------------------
(* The span aligner *)

\* The sub-spans of [input_start, input_end] whose tokens, joined by single
\* spaces, are the answer's tokens joined by single spaces.
Matches(doc, input_start, input_end, tok_answer_text) ==
    {m \in (input_start..input_end) \X (input_start..input_end) :
        /\ m[1] <= m[2]
        /\ Join(SubSeq(doc, m[1] + 1, m[2] + 1)) = tok_answer_text}

\* C10: _improve_answer_span returns the first matching sub-span, taking
\* the starts upwards from input_start and for each start the ends
\* downwards from input_end; without a match it returns (input_start,
\* input_end).  For "(", "1895", "-", "1943", ")", ".", answer "1895" and
\* span [0, 5] it returns [1, 1].
C10_FirstMatch ==
    ia_result # <<>> =>
        LET found == Matches(ia_doc_tokens, ia_span[1], ia_span[2],
                             Join(Tokenizer(ia_answer_text)))
            got == ia_result[1]
        IN  /\ found = {} => got = ia_span
            /\ found # {} =>
                  /\ got \in found
                  /\ \A m \in found :
                        got[1] < m[1] \/ (got[1] = m[1] /\ got[2] >= m[2])
            /\ (/\ ia_doc_tokens = SmithTokens
                /\ ia_answer_text = <<"1895">>
                /\ ia_span = <<0, 5>>) => got = <<1, 1>>

\* The call of the example.
C10_Witness ==
    /\ ia_doc_tokens = SmithTokens
    /\ ia_answer_text = <<"1895">>
    /\ ia_span = <<0, 5>>
    /\ ia_result = <<<<1, 1>>>>

=============================================================================
